---- MODULE Spec2Model ----
(***************************************************************************)
(* A model of protoc-gen-go-http-client: HTTPClientModule.Execute and the  *)
(* functions it calls (parseClientConfig, extractServices, extractHTTPInfo,*)
(* groupServices, generateService, generateNestedServices,                 *)
(* generateRootClient).                                                    *)
(*                                                                         *)
(* A Go string is a sequence of one-character strings, so that prefix      *)
(* tests, splitting, trimming and byte-wise comparison are computed as the *)
(* code computes them.                                                     *)
(***************************************************************************)
EXTENDS Integers, Sequences, FiniteSets, TLC

\* ------------------------------------------------------------------ bounds

\* The largest number of input files of one invocation.
MaxFiles == 2

\* The largest number of output files whose template execution fails.
MaxRenderFails == 1

\* The suffixes a base name ends in, at most.
MaxSuffixes == 2

\* The pieces of a path template, at most.
MaxSegs == 3

\* ----------------------------------------------------------------- strings

Upper == <<"A","B","C","D","E","F","G","H","I","J","K","L","M",
           "N","O","P","Q","R","S","T","U","V","W","X","Y","Z">>

Lower == <<"a","b","c","d","e","f","g","h","i","j","k","l","m",
           "n","o","p","q","r","s","t","u","v","w","x","y","z">>

\* The characters the model uses, in ascending byte order.
Ascii == <<" ", "%", ",", ".", "/", ":">> \o Upper \o <<"_">> \o Lower \o <<"{", "}">>

ByteOf(c) == CHOOSE i \in 1..Len(Ascii) : Ascii[i] = c

IndexIn(c, alphabet) ==
    IF \E i \in 1..Len(alphabet) : alphabet[i] = c
    THEN CHOOSE i \in 1..Len(alphabet) : alphabet[i] = c
    ELSE 0

ToUpperChar(c) == IF IndexIn(c, Lower) > 0 THEN Upper[IndexIn(c, Lower)] ELSE c

ToLowerChar(c) == IF IndexIn(c, Upper) > 0 THEN Lower[IndexIn(c, Upper)] ELSE c

\* strings.ToLower
ToLower(s) == [i \in 1..Len(s) |-> ToLowerChar(s[i])]

\* strings.ToUpper(s[:1]) + s[1:], for a non-empty s
UpperFirst(s) == <<ToUpperChar(s[1])>> \o Tail(s)

\* strings.ToLower(s[:1]) + s[1:], for a non-empty s
LowerFirst(s) == <<ToLowerChar(s[1])>> \o Tail(s)

\* Go's s < t on strings: byte-wise lexicographic order.
RECURSIVE StrLess(_, _)
StrLess(s, t) ==
    IF t = <<>> THEN FALSE
    ELSE IF s = <<>> THEN TRUE
    ELSE IF s[1] = t[1] THEN StrLess(Tail(s), Tail(t))
    ELSE ByteOf(s[1]) < ByteOf(t[1])

\* strings.HasPrefix
HasPrefix(s, p) == Len(s) >= Len(p) /\ SubSeq(s, 1, Len(p)) = p

\* strings.HasSuffix
HasSuffix(s, p) == Len(s) >= Len(p) /\ SubSeq(s, Len(s) - Len(p) + 1, Len(s)) = p

\* strings.TrimSuffix
TrimSuffix(s, p) == IF HasSuffix(s, p) THEN SubSeq(s, 1, Len(s) - Len(p)) ELSE s

\* strings.TrimPrefix
TrimPrefix(s, p) == IF HasPrefix(s, p) THEN SubSeq(s, Len(p) + 1, Len(s)) ELSE s

\* strings.TrimSpace
RECURSIVE TrimLeft(_)
TrimLeft(s) == IF s # <<>> /\ s[1] = " " THEN TrimLeft(Tail(s)) ELSE s

RECURSIVE TrimRight(_)
TrimRight(s) ==
    IF s # <<>> /\ s[Len(s)] = " " THEN TrimRight(SubSeq(s, 1, Len(s) - 1)) ELSE s

TrimSpace(s) == TrimRight(TrimLeft(s))

\* The index of the first occurrence of the non-empty string p in s, 0 if none.
IndexOf(s, p) ==
    LET hits == {i \in 1..(Len(s) - Len(p) + 1) : SubSeq(s, i, i + Len(p) - 1) = p}
    IN  IF hits = {} THEN 0 ELSE CHOOSE i \in hits : \A j \in hits : i <= j

\* strings.Split(s, sep) for a one-character sep: always at least one part.
RECURSIVE Split(_, _)
Split(s, sep) ==
    LET i == IndexOf(s, <<sep>>)
    IN  IF i = 0 THEN <<s>>
        ELSE <<SubSeq(s, 1, i - 1)>> \o Split(SubSeq(s, i + 1, Len(s)), sep)

\* strings.SplitN(s, sep, 2)
SplitN2(s, sep) ==
    LET i == IndexOf(s, <<sep>>)
    IN  IF i = 0 THEN <<s>>
        ELSE <<SubSeq(s, 1, i - 1), SubSeq(s, i + 1, Len(s))>>

\* strings.Join
RECURSIVE Join(_, _)
Join(parts, sep) ==
    IF parts = <<>> THEN <<>>
    ELSE IF Len(parts) = 1 THEN parts[1]
    ELSE parts[1] \o sep \o Join(Tail(parts), sep)

\* strings.Replace(s, old, new, 1): the first occurrence only.
ReplaceFirst(s, old, new) ==
    LET i == IndexOf(s, old)
    IN  IF i = 0 THEN s
        ELSE SubSeq(s, 1, i - 1) \o new \o SubSeq(s, i + Len(old), Len(s))

\* strings.Replace(s, ".", "/", -1)
DotsToSlashes(s) == [i \in 1..Len(s) |-> IF s[i] = "." THEN "/" ELSE s[i]]

\* filepath.Join: the non-empty elements joined by "/".
RECURSIVE NonEmpty(_)
NonEmpty(parts) ==
    IF parts = <<>> THEN <<>>
    ELSE IF parts[1] = <<>> THEN NonEmpty(Tail(parts))
    ELSE <<parts[1]>> \o NonEmpty(Tail(parts))

PathJoin(parts) == Join(NonEmpty(parts), <<"/">>)

\* sort.Slice on a short slice is an insertion sort: each element moves left
\* past the elements it is less than.
RECURSIVE InsertBy(_, _, _)
InsertBy(Less(_, _), sorted, x) ==
    IF sorted = <<>> THEN <<x>>
    ELSE IF Less(x, sorted[Len(sorted)])
         THEN InsertBy(Less, SubSeq(sorted, 1, Len(sorted) - 1), x)
              \o <<sorted[Len(sorted)]>>
         ELSE sorted \o <<x>>

RECURSIVE SortSliceFrom(_, _, _)
SortSliceFrom(Less(_, _), sorted, rest) ==
    IF rest = <<>> THEN sorted
    ELSE SortSliceFrom(Less, InsertBy(Less, sorted, rest[1]), Tail(rest))

SortSlice(Less(_, _), xs) == SortSliceFrom(Less, <<>>, xs)

\* sort.Strings
SortStrings(xs) == SortSlice(StrLess, xs)

\* ---------------------------------------------------------------- literals

sService == <<"S","e","r","v","i","c","e">>

sClient == <<"C","l","i","e","n","t">>

sImpl == <<"I","m","p","l">>

sGenGo == <<".","g","e","n",".","g","o">>

sClientGenGo == <<"c","l","i","e","n","t">> \o sGenGo

sHttp == <<"h","t","t","p">>

sReqDot == <<"r","e","q",".">>

sSlot == <<"%","s">>

\* config.go:42: the module path used when go_module_path is not given.
DefaultGoModulePath == <<"g","i","t","h","u","b",".","c","o","m","/","g","e","t","f","r","o","n","t","i","e","r","h","q","/","s","c","h","e","m","a","/","p","k","g","/","g","o">>

\* ------------------------------------------------------------------- input

\* A method option: pattern is the HttpRule pattern that is set ("custom" is
\* the one pattern that is none of the five verbs, "unset" an HttpRule with no
\* pattern), or says that the method has no options or no http extension.
Ann(pattern, path) == [pattern |-> pattern, path |-> path]

NoAnn == Ann("noextension", <<>>)

Meth(name, in, out, ann) == [Name |-> name, InputType |-> in, OutputType |-> out, Ann |-> ann]

mGet == Meth(<<"G","e","t">>, <<"G","R","e","q">>, <<"G","R","e","s">>,
             Ann("get", <<"/","a","/","{","l","_","i","}","/","{","k","}">>))

mPut == Meth(<<"P","u","t">>, <<"P","R","e","q">>, <<"P","R","e","s">>,
             Ann("put", <<"/","a">>))

mAdd == Meth(<<"A","d","d">>, <<"A","R","e","q">>, <<"A","R","e","s">>,
             Ann("post", <<"/","t">>))

mDel == Meth(<<"D","e","l">>, <<"D","R","e","q">>, <<"D","R","e","s">>,
             Ann("delete", <<"/","t","/","{","k","}">>))

mMod == Meth(<<"M","o","d">>, <<"M","R","e","q">>, <<"M","R","e","s">>,
             Ann("patch", <<"/","t">>))

mBad == Meth(<<"B","a","d">>, <<"B","R","e","q">>, <<"B","R","e","s">>,
             Ann("custom", <<>>))

mRaw == Meth(<<"R","a","w">>, <<"R","R","e","q">>, <<"R","R","e","s">>, NoAnn)

mNop == Meth(<<"N","o","p">>, <<"N","R","e","q">>, <<"N","R","e","s">>,
             Ann("nooptions", <<>>))

mNil == Meth(<<"N","i","l">>, <<"N","R","e","q">>, <<"N","R","e","s">>,
             Ann("unset", <<>>))

Svc(name, methods) == [Name |-> name, Methods |-> methods]

File(name, pkg, services) == [Name |-> name, Package |-> pkg, Services |-> services]

nFoo == <<"F","o","o">>

nFooService == nFoo \o sService

pRoot == <<"r",".","b">>

\* The files an invocation draws from.  Packages: the root itself, two
\* children and a grandchild of the root, a package that has the root only as
\* a string prefix, a child of such a package, and an unrelated package.
FileCatalogue ==
    { File(<<"a">>, pRoot, << Svc(nFooService, <<mPut, mGet>>), Svc(nFoo, <<mRaw, mBad>>) >>),
      File(<<"b">>, pRoot \o <<".","c">>, << Svc(<<"T">>, <<mMod, mAdd>>) >>),
      File(<<"c">>, pRoot \o <<".","c",".","d">>, << Svc(<<"S">>, <<mNop, mDel>>) >>),
      File(<<"d">>, pRoot \o <<"x">>, << Svc(<<"X">>, <<mAdd>>) >>),
      File(<<"e">>, pRoot \o <<".","f","o","o">>, << Svc(<<"Y">>, <<mNil, mGet>>) >>),
      File(<<"f">>, <<"q">>, << Svc(<<"Z">>, <<mAdd>>) >>),
      File(<<"g">>, pRoot \o <<"x",".","z">>, << Svc(<<"W">>, <<mAdd>>) >>) }

\* The plugin parameters: client= and go_module_path=.
Param(client, gomod) == [client |-> client, go_module_path |-> gomod]

ParamCatalogue ==
    { Param(<<" ","r",".","b",":","o"," ">>, <<>>),
      Param(<<"r",".","b",":"," ">>, <<"m">>),
      Param(<<"r",".","b">>, <<"m">>),
      Param(<<>>, <<"m">>),
      Param(<<" ",":","o">>, <<"m">>) }

\* The output files whose template execution can be made to fail: a template
\* name with the service name, category or client name it is executed for.
RenderTargets ==
    { <<"service", nFoo>>, <<"service", nFooService>>,
      <<"nested", <<"c">> >>, <<"nested", <<"f","o","o">> >>,
      <<"rootclient", <<"B">> \o sClient>> }

\* ------------------------------------------------------- Binding Extractor

\* m.HTTP is a pointer: <<>> is nil, <<info>> is a binding.
HTTPInfo(method, path, pathParams) == [Method |-> method, Path |-> path, PathParams |-> pathParams]

RECURSIVE Without(_, _)
Without(q, e) ==
    IF q = <<>> THEN <<>>
    ELSE (IF q[1] = e THEN <<>> ELSE <<q[1]>>) \o Without(Tail(q), e)

\* An extractor that returns every name once, at its first position.
RECURSIVE extractPathParamsDistinct(_)
extractPathParamsDistinct(path) ==
    LET i == IndexOf(path, <<"{">>)
        rest == SubSeq(path, i + 1, Len(path))
        j == IndexOf(rest, <<"}">>)
        name == SubSeq(rest, 1, j - 1)
    IN  IF i = 0 \/ j = 0 THEN <<>>
        ELSE IF j = 1 THEN extractPathParamsDistinct(rest)
        ELSE <<name>> \o Without(extractPathParamsDistinct(SubSeq(rest, j + 1, Len(rest))), name)

\* regexp \{([^}]+)\} with FindAllStringSubmatch: leftmost matches, left to
\* right, non-overlapping; the name may hold any character but "}".
RECURSIVE extractPathParams(_)
extractPathParams(path) ==
    LET i == IndexOf(path, <<"{">>)
        rest == SubSeq(path, i + 1, Len(path))
        j == IndexOf(rest, <<"}">>)
    IN  IF i = 0 \/ j = 0 THEN <<>>
        ELSE IF j = 1 THEN extractPathParams(rest)
        ELSE <<SubSeq(rest, 1, j - 1)>> \o extractPathParams(SubSeq(rest, j + 1, Len(rest)))

VerbOf(pattern) ==
    CASE pattern = "get" -> "GET"
      [] pattern = "post" -> "POST"
      [] pattern = "put" -> "PUT"
      [] pattern = "delete" -> "DELETE"
      [] pattern = "patch" -> "PATCH"
      [] OTHER -> ""

\* The result is (info, err): HTTP is <<>> when err is not "".
extractHTTPInfo(method) ==
    LET a == method.Ann
    IN  IF a.pattern = "nooptions" THEN [HTTP |-> <<>>, err |-> "no options"]
        ELSE IF a.pattern = "noextension" THEN [HTTP |-> <<>>, err |-> "no http annotation"]
        ELSE IF VerbOf(a.pattern) = ""
             THEN [HTTP |-> <<>>, err |-> "unsupported HTTP method pattern"]
        ELSE [HTTP |-> <<HTTPInfo(VerbOf(a.pattern), a.path, extractPathParams(a.path))>>,
              err |-> ""]

\* A conversion that also lower-cases the rest of every segment.
PascalPartsTitle(parts) == [i \in 1..Len(parts) |->
                               IF Len(parts[i]) > 0
                               THEN <<ToUpperChar(parts[i][1])>> \o ToLower(Tail(parts[i]))
                               ELSE parts[i]]

\* snakeToPascal
PascalParts(parts) == [i \in 1..Len(parts) |->
                          IF Len(parts[i]) > 0 THEN UpperFirst(parts[i]) ELSE parts[i]]

snakeToPascal(s) == Join(PascalParts(Split(s, "_")), <<>>)

\* -------------------------------------------------------- Schema Collector

MethodLess(a, b) == StrLess(a.Name, b.Name)

\* A comparison that looks at the name first and at the package to break ties.
ServiceLessNameFirst(a, b) ==
    IF a.Name = b.Name THEN StrLess(a.Package, b.Package)
    ELSE StrLess(a.Name, b.Name)

ServiceLess(a, b) ==
    IF a.Package = b.Package THEN StrLess(a.Name, b.Name)
    ELSE StrLess(a.Package, b.Package)

\* config.go:94-108: one Method per declared method; an error of
\* extractHTTPInfo, whichever it is, leaves m.HTTP nil.
extractMethod(method) ==
    LET r == extractHTTPInfo(method)
    IN  [Name |-> method.Name, InputType |-> method.InputType,
         OutputType |-> method.OutputType,
         HTTP |-> IF r.err = "" THEN r.HTTP ELSE <<>>]

extractService(file, svc) ==
    [Name |-> svc.Name, Package |-> file.Package, GoPackage |-> file.Name,
     Methods |-> SortSlice(MethodLess, [i \in 1..Len(svc.Methods) |-> extractMethod(svc.Methods[i])])]

\* config.go:79-82: the package filter.
underRoot(pkg, rootPackage) == HasPrefix(pkg, rootPackage)

RECURSIVE collectFiles(_, _)
collectFiles(files, rootPackage) ==
    IF files = <<>> THEN <<>>
    ELSE LET file == files[1]
             here == IF underRoot(file.Package, rootPackage)
                     THEN [i \in 1..Len(file.Services) |-> extractService(file, file.Services[i])]
                     ELSE <<>>
         IN  here \o collectFiles(Tail(files), rootPackage)

\* A collector that returns the services in the order it met them.
sortServicesOmitted(found) == found

\* config.go:119-125
sortServices(found) == SortSlice(ServiceLess, found)

extractServices(files, rootPackage) == sortServices(collectFiles(files, rootPackage))

\* ----------------------------------------------------------- configuration

NoConfig ==
    [RootPackage |-> <<>>, OutputSubdir |-> <<>>, ClientName |-> <<>>,
     GoModulePath |-> <<>>, HTTPClientPkg |-> <<>>]

\* The result is kind "ok" with a configuration, kind "err" (a returned
\* error), or kind "panic": lastPart[:1] of an empty last segment is a slice
\* out of range.
parseClientConfig(params) ==
    LET clientParam == params.client
        parts == SplitN2(clientParam, ":")
        rootPackage == TrimSpace(parts[1])
        outputSubdir == TrimSpace(parts[2])
        packageParts == Split(rootPackage, ".")
        lastPart == packageParts[Len(packageParts)]
        goModulePath == IF params.go_module_path = <<>> THEN DefaultGoModulePath
                        ELSE params.go_module_path
    IN  IF clientParam = <<>> THEN [kind |-> "err", cfg |-> NoConfig]
        ELSE IF Len(parts) # 2 THEN [kind |-> "err", cfg |-> NoConfig]
        ELSE IF lastPart = <<>> THEN [kind |-> "panic", cfg |-> NoConfig]
        ELSE [kind |-> "ok",
              cfg |-> [RootPackage |-> rootPackage,
                       OutputSubdir |-> outputSubdir,
                       ClientName |-> UpperFirst(lastPart) \o sClient,
                       GoModulePath |-> goModulePath,
                       HTTPClientPkg |-> goModulePath \o <<"/">> \o outputSubdir
                                         \o <<"/">> \o sHttp]]

\* ----------------------------------------------------------- Naming Policy

generateInterfaceName(serviceName) == serviceName

\* An implementation name that is the interface name.
generateImplNameNoSuffix(serviceName) == serviceName

generateImplName(serviceName) == serviceName \o sImpl

generatePrivateFieldName(serviceName) ==
    LET name == TrimSuffix(TrimSuffix(serviceName, sService), sClient)
    IN  IF serviceName = <<>> THEN <<>>
        ELSE IF Len(name) > 0 THEN LowerFirst(name)
        ELSE name

\* -------------------------------------------------------- Namespace Grouper

NoBuckets == [c \in {} |-> <<>>]

\* A grouper that takes the last segment of the package for the category.
categoryOfLastSegment(pkg, rootPkg) ==
    LET parts == Split(pkg, ".")
    IN  IF Len(parts) > Len(Split(rootPkg, ".")) THEN <<parts[Len(parts)]>> ELSE <<>>

\* main.go:141-149: the bucket of a service outside the root package; <<>>
\* when the package has no segment after the root's.
categoryOf(pkg, rootPkg) ==
    LET parts == Split(pkg, ".")
        categoryIndex == Len(Split(rootPkg, "."))
    IN  IF Len(parts) > categoryIndex THEN <<parts[categoryIndex + 1]>> ELSE <<>>

isTopLevel(svc, rootPkg) == svc.Package = rootPkg

\* A grouper that starts the bucket anew with every service it puts there.
RECURSIVE groupFromOverwrite(_, _, _, _)
groupFromOverwrite(ss, rootPkg, top, buckets) ==
    IF ss = <<>> THEN [topLevel |-> top, nested |-> buckets]
    ELSE LET svc == ss[1]
             cat == categoryOf(svc.Package, rootPkg)
         IN  IF isTopLevel(svc, rootPkg)
             THEN groupFromOverwrite(Tail(ss), rootPkg, Append(top, svc), buckets)
             ELSE IF cat # <<>>
             THEN groupFromOverwrite(Tail(ss), rootPkg, top,
                                     [c \in DOMAIN buckets \cup {cat[1]} |->
                                         IF c = cat[1] THEN <<svc>> ELSE buckets[c]])
             ELSE groupFromOverwrite(Tail(ss), rootPkg, top, buckets)

RECURSIVE groupFrom(_, _, _, _)
groupFrom(services, rootPkg, topLevel, nested) ==
    IF services = <<>> THEN [topLevel |-> topLevel, nested |-> nested]
    ELSE LET svc == services[1]
             cat == categoryOf(svc.Package, rootPkg)
         IN  IF isTopLevel(svc, rootPkg)
             THEN groupFrom(Tail(services), rootPkg, Append(topLevel, svc), nested)
             ELSE IF cat # <<>>
             THEN groupFrom(Tail(services), rootPkg, topLevel,
                            IF cat[1] \in DOMAIN nested
                            THEN [nested EXCEPT ![cat[1]] = Append(@, svc)]
                            ELSE nested @@ (cat[1] :> <<svc>>))
             ELSE groupFrom(Tail(services), rootPkg, topLevel, nested)

groupServices(services, rootPkg) == groupFrom(services, rootPkg, <<>>, NoBuckets)

NameLess(a, b) == StrLess(a.Name, b.Name)

\* main.go:88-92 and part_003:277-281: the keys of the map, sorted.
RECURSIVE SetToSeq(_)
SetToSeq(S) ==
    IF S = {} THEN <<>>
    ELSE LET e == CHOOSE e \in S : TRUE IN <<e>> \o SetToSeq(S \ {e})

StrGreater(a, b) == StrLess(b, a)

\* A sort of the categories with the comparison the wrong way round.
sortedCategoriesDescending(buckets) == SortSlice(StrGreater, SetToSeq(DOMAIN buckets))

sortedCategories(buckets) == SortStrings(SetToSeq(DOMAIN buckets))

\* ------------------------------------------------------------ Path Compiler

\* A loop that stops after the first parameter.
replaceParamsFirstOnly(template, params) ==
    IF params = <<>> THEN template
    ELSE ReplaceFirst(template, <<"{">> \o params[1] \o <<"}">>, sSlot)

RECURSIVE replaceParams(_, _)
replaceParams(template, params) ==
    IF params = <<>> THEN template
    ELSE replaceParams(ReplaceFirst(template, <<"{">> \o params[1] \o <<"}">>, sSlot),
                       Tail(params))

\* The fmt.Sprintf call the method body gets: its format string and its
\* arguments, in order.
buildPathConstruction(path, params) ==
    [Template |-> replaceParams(path, params),
     Args |-> [i \in 1..Len(params) |-> sReqDot \o snakeToPascal(params[i])]]

\* ------------------------------------------------------------------ Emitter

sGet == <<"G","e","t">>

sNew == <<"N","e","w">>

computeImportSuffix(pkg, rootPkg) ==
    IF pkg = rootPkg THEN <<>>
    ELSE IF ~HasPrefix(pkg, rootPkg \o <<".">>) THEN <<>>
    ELSE <<"/">> \o DotsToSlashes(TrimPrefix(pkg, rootPkg \o <<".">>))

protoPackageOf(cfg, importSuffix) ==
    cfg.GoModulePath \o <<"/">> \o DotsToSlashes(cfg.RootPackage) \o importSuffix

\* A MethodTemplateData; PathConstruction is <<>> for the empty string.
methodData(m) ==
    [Name |-> m.Name, InputType |-> m.InputType, OutputType |-> m.OutputType,
     HTTP |-> m.HTTP[1],
     PathConstruction |->
        IF Len(m.HTTP[1].PathParams) > 0
        THEN <<buildPathConstruction(m.HTTP[1].Path, m.HTTP[1].PathParams)>>
        ELSE <<>>]

\* An emitter that also skips the methods the transport has no call for.
RECURSIVE boundMethodsGetPostOnly(_)
boundMethodsGetPostOnly(methods) ==
    IF methods = <<>> THEN <<>>
    ELSE IF methods[1].HTTP = <<>> \/ methods[1].HTTP[1].Method \notin {"GET", "POST"}
         THEN boundMethodsGetPostOnly(Tail(methods))
    ELSE <<methodData(methods[1])>> \o boundMethodsGetPostOnly(Tail(methods))

\* part_003:53-73 and 199-218: the methods with a binding, in order.
RECURSIVE boundMethods(_)
boundMethods(methods) ==
    IF methods = <<>> THEN <<>>
    ELSE IF methods[1].HTTP = <<>> THEN boundMethods(Tail(methods))
    ELSE <<methodData(methods[1])>> \o boundMethods(Tail(methods))

\* An emitter that never asks for the formatting package.
hasFmtNever(methods) == FALSE

hasFmt(methods) == \E i \in 1..Len(methods) : methods[i].PathConstruction # <<>>

\* part_001:31-32 and 92-93: one line of the interface.
renderSignature(md) ==
    [Name |-> md.Name, InputType |-> md.InputType, OutputType |-> md.OutputType,
     Verb |-> md.HTTP.Method, Path |-> md.HTTP.Path]

\* part_001:47-48 and 108-109: the transport call of a method body.
transportCall(verb) == IF verb = "POST" THEN "Post" ELSE "Get"

\* part_001:42-50 and 103-111: one method of the implementation.
renderFunc(md) ==
    [Name |-> md.Name, InputType |-> md.InputType, OutputType |-> md.OutputType,
     Verb |-> md.HTTP.Method,
     Path |-> IF md.PathConstruction # <<>>
              THEN [sprintf |-> TRUE, text |-> md.PathConstruction[1].Template,
                    args |-> md.PathConstruction[1].Args]
              ELSE [sprintf |-> FALSE, text |-> md.HTTP.Path, args |-> <<>>],
     Call |-> transportCall(md.HTTP.Method)]

renderServiceBody(name, methods) ==
    [ServiceName |-> name,
     InterfaceName |-> generateInterfaceName(name),
     ImplName |-> generateImplName(name),
     PrivateField |-> generatePrivateFieldName(name),
     Signatures |-> [i \in 1..Len(methods) |-> renderSignature(methods[i])],
     Funcs |-> [i \in 1..Len(methods) |-> renderFunc(methods[i])]]

NoCode == [template |-> "none"]

\* -------------------------------------------------------------------- state

VARIABLES
    params,       \* the plugin parameters of the invocation
    targets,      \* the input files, in the order the range over the map yields them
    renderFails,  \* the output files whose template execution returns an error
    pc,           \* where Execute is
    cfg,          \* the parsed configuration
    failed,       \* m.Fail was called
    services,     \* the collected services
    topLevel,     \* the services of the root package
    nested,       \* category -> services
    categories,   \* the sorted categories
    idx,          \* the index of the running loop
    artifacts,    \* the files added with AddGeneratorFile, in order
    errLog,       \* the "Error generating ..." log lines, by rendering target
    call,         \* a function of the program called on its own, with its arguments
    ret           \* what that call returned

vars == <<params, targets, renderFails, pc, cfg, failed, services, topLevel,
          nested, categories, idx, artifacts, errLog, call, ret>>

\* No function is called on its own during a run of Execute.
NoCall == [fn |-> "none"]

NoRet == [fn |-> "none"]

\* text/template's Execute of template `name` for `key`.
templateFails(name, key) == <<name, key>> \in renderFails

generateService(svc, c) ==
    LET importSuffix == computeImportSuffix(svc.Package, c.RootPackage)
        methods == boundMethods(svc.Methods)
    IN  IF templateFails("service", svc.Name) THEN [err |-> TRUE, code |-> NoCode]
        ELSE [err |-> FALSE,
              code |-> [template |-> "service",
                        HasFmt |-> hasFmt(methods),
                        HTTPClientPkg |-> c.HTTPClientPkg,
                        ProtoPackage |-> protoPackageOf(c, importSuffix),
                        Body |-> renderServiceBody(svc.Name, methods)]]

\* part_001:73, 79, 84-85: what the category file declares for one service.
nestedAccessor(body) ==
    [Name |-> sGet \o body.ServiceName, Returns |-> body.InterfaceName,
     Field |-> body.PrivateField, FieldType |-> body.ImplName]

generateNestedServices(category, svcs, c) ==
    LET categoryCapitalized == UpperFirst(category)
        importSuffix == <<"/">> \o category
        base == categoryCapitalized \o sClient
        bodies == [i \in 1..Len(svcs) |->
                      renderServiceBody(svcs[i].Name, boundMethods(svcs[i].Methods))]
    IN  IF templateFails("nested", category) THEN [err |-> TRUE, code |-> NoCode]
        ELSE [err |-> FALSE,
              code |-> [template |-> "nested",
                        HasFmt |-> \E i \in 1..Len(svcs) : hasFmt(boundMethods(svcs[i].Methods)),
                        HTTPClientPkg |-> c.HTTPClientPkg,
                        ProtoPackage |-> protoPackageOf(c, importSuffix),
                        Category |-> categoryCapitalized,
                        CategoryLower |-> category,
                        InterfaceName |-> generateInterfaceName(base),
                        ImplName |-> generateImplName(base),
                        Accessors |-> [i \in 1..Len(svcs) |-> nestedAccessor(bodies[i])],
                        Services |-> bodies]]

\* A ServiceInfo whose accessor keeps the "Service" of the name.
topLevelInfoUntrimmed(svc) ==
    [FieldName |-> svc.Name,
     TypeName |-> svc.Name,
     ImplName |-> generateImplName(svc.Name),
     InterfaceName |-> generateInterfaceName(svc.Name),
     PrivateField |-> generatePrivateFieldName(svc.Name)]

\* A ServiceInfo of the root client.
topLevelInfo(svc) ==
    [FieldName |-> TrimSuffix(svc.Name, sService),
     TypeName |-> svc.Name,
     ImplName |-> generateImplName(svc.Name),
     InterfaceName |-> generateInterfaceName(svc.Name),
     PrivateField |-> generatePrivateFieldName(svc.Name)]

nestedServiceInfo(svc) ==
    [FieldName |-> svc.Name,
     TypeName |-> svc.Name,
     ImplName |-> generateImplName(svc.Name),
     InterfaceName |-> generateInterfaceName(svc.Name),
     PrivateField |-> generatePrivateFieldName(svc.Name)]

\* A NestedClientInfo of the root client; svcs is the sorted bucket.
nestedClientInfo(category, svcs) ==
    LET categoryCapitalized == UpperFirst(category)
    IN  [FieldName |-> categoryCapitalized,
         TypeName |-> categoryCapitalized \o sClient,
         ImplName |-> generateImplName(categoryCapitalized \o sClient),
         InterfaceName |-> generateInterfaceName(categoryCapitalized \o sClient),
         PrivateField |-> generatePrivateFieldName(categoryCapitalized \o sClient),
         Services |-> [i \in 1..Len(svcs) |-> nestedServiceInfo(svcs[i])]]

\* part_001:137-138, 145-146, 150-159: the accessor and the field of one entry.
rootAccessor(info) ==
    [Name |-> sGet \o info.FieldName, Returns |-> info.InterfaceName,
     Field |-> info.PrivateField, FieldType |-> info.ImplName]

\* A constructor that gives an implementation a handle of its own.
wireServiceOwnHandle(info) ==
    [Field |-> info.PrivateField, ImplName |-> info.ImplName,
     client |-> "&httpclient.HTTPClient{}"]

\* part_001:178-181: how the constructor builds one implementation.
wireService(info) ==
    [Field |-> info.PrivateField, ImplName |-> info.ImplName, client |-> "httpClient"]

wireNested(info) ==
    [Field |-> info.PrivateField, ImplName |-> info.ImplName,
     Services |-> [i \in 1..Len(info.Services) |-> wireService(info.Services[i])]]

\* part_003:283-288: the buckets after the sort of each in place.
sortBuckets(buckets) == [c \in DOMAIN buckets |-> SortSlice(NameLess, buckets[c])]

generateRootClient(clientName, top, buckets, c) ==
    LET tops == [i \in 1..Len(top) |-> topLevelInfo(top[i])]
        cats == sortedCategories(buckets)
        sorted == sortBuckets(buckets)
        clients == [i \in 1..Len(cats) |-> nestedClientInfo(cats[i], sorted[cats[i]])]
        entries == tops \o clients
    IN  IF templateFails("rootclient", clientName) THEN [err |-> TRUE, code |-> NoCode]
        ELSE [err |-> FALSE,
              code |-> [template |-> "rootclient",
                        HTTPClientPkg |-> c.HTTPClientPkg,
                        ClientName |-> clientName,
                        InterfaceName |-> generateInterfaceName(clientName),
                        ImplName |-> generateImplName(clientName),
                        Accessors |-> [i \in 1..Len(entries) |-> rootAccessor(entries[i])],
                        Constructor |->
                           [Name |-> sNew \o clientName,
                            Creates |-> <<"httpClient">>,
                            TopLevel |-> [i \in 1..Len(tops) |-> wireService(tops[i])],
                            Nested |-> [i \in 1..Len(clients) |-> wireNested(clients[i])]]]]

\* ------------------------------------------------------------------ Execute

Artifact(path, code) == [path |-> path, code |-> code]

FileLess(a, b) == StrLess(a.Name, b.Name)

\* main.go:36-43
sortFiles(files) == SortSlice(FileLess, files)

\* main.go:58-61: the static file.
staticArtifact(c) ==
    Artifact(PathJoin(<<c.OutputSubdir, sHttp, sClientGenGo>>),
             [template |-> "httpClientBaseCode"])

topLevelPath(svc, c) ==
    PathJoin(<<c.OutputSubdir, ToLower(TrimSuffix(svc.Name, sService)) \o sGenGo>>)

categoryPath(category, c) == PathJoin(<<c.OutputSubdir, ToLower(category) \o sGenGo>>)

rootClientPath(c) == PathJoin(<<c.OutputSubdir, sClientGenGo>>)

\* main.go:66-69
sortTopLevel(top) == SortSlice(NameLess, top)

\* main.go:95-99
sortCategory(svcs) == SortSlice(NameLess, svcs)

\* The sequences of at most n distinct elements of S.
InjectiveSeqs(S, n) ==
    {q \in UNION {[1..k -> S] : k \in 0..n} :
        \A i, j \in 1..Len(q) : i # j => q[i] # q[j]}

Init ==
    /\ params \in ParamCatalogue
    /\ targets \in InjectiveSeqs(FileCatalogue, MaxFiles)
    /\ renderFails \in {F \in SUBSET RenderTargets : Cardinality(F) <= MaxRenderFails}
    /\ pc = "start"
    /\ cfg = NoConfig
    /\ failed = FALSE
    /\ services = <<>>
    /\ topLevel = <<>>
    /\ nested = NoBuckets
    /\ categories = <<>>
    /\ idx = 0
    /\ artifacts = <<>>
    /\ errLog = <<>>
    /\ call = NoCall
    /\ ret = NoRet

\* An Execute that calls Fail on a malformed configuration and goes on.
ConfigErrorContinues ==
    /\ pc = "start"
    /\ parseClientConfig(params).kind = "err"
    /\ failed' = TRUE
    /\ pc' = "configured"
    /\ UNCHANGED <<params, targets, renderFails, cfg, services, topLevel, nested,
                   categories, idx, artifacts, errLog>>
    /\ UNCHANGED <<call, ret>>

\* main.go:27-31: the configuration is malformed; Fail and return.
ConfigError ==
    /\ pc = "start"
    /\ parseClientConfig(params).kind = "err"
    /\ failed' = TRUE
    /\ pc' = "done"
    /\ UNCHANGED <<params, targets, renderFails, cfg, services, topLevel, nested,
                   categories, idx, artifacts, errLog>>
    /\ UNCHANGED <<call, ret>>

\* main.go:27 with config.go:34-35: parseClientConfig panics.
ConfigPanic ==
    /\ pc = "start"
    /\ parseClientConfig(params).kind = "panic"
    /\ pc' = "crashed"
    /\ UNCHANGED <<params, targets, renderFails, cfg, failed, services, topLevel,
                   nested, categories, idx, artifacts, errLog>>
    /\ UNCHANGED <<call, ret>>

\* main.go:27-34
ConfigOk ==
    /\ pc = "start"
    /\ parseClientConfig(params).kind = "ok"
    /\ cfg' = parseClientConfig(params).cfg
    /\ pc' = "configured"
    /\ UNCHANGED <<params, targets, renderFails, failed, services, topLevel, nested,
                   categories, idx, artifacts, errLog>>
    /\ UNCHANGED <<call, ret>>

\* main.go:36-56
Collect ==
    /\ pc = "configured"
    /\ services' = extractServices(sortFiles(targets), cfg.RootPackage)
    /\ pc' = "collected"
    /\ UNCHANGED <<params, targets, renderFails, cfg, failed, topLevel, nested,
                   categories, idx, artifacts, errLog>>
    /\ UNCHANGED <<call, ret>>

\* main.go:58-61
EmitStatic ==
    /\ pc = "collected"
    /\ artifacts' = Append(artifacts, staticArtifact(cfg))
    /\ pc' = "static"
    /\ UNCHANGED <<params, targets, renderFails, cfg, failed, services, topLevel,
                   nested, categories, idx, errLog>>
    /\ UNCHANGED <<call, ret>>

\* main.go:63-69
Group ==
    /\ pc = "static"
    /\ topLevel' = sortTopLevel(groupServices(services, cfg.RootPackage).topLevel)
    /\ nested' = groupServices(services, cfg.RootPackage).nested
    /\ idx' = 1
    /\ pc' = "toplevel"
    /\ UNCHANGED <<params, targets, renderFails, cfg, failed, services, categories,
                   artifacts, errLog>>
    /\ UNCHANGED <<call, ret>>

\* main.go:72-84, one iteration: the file of a top-level service.
EmitTopLevel ==
    /\ pc = "toplevel"
    /\ idx <= Len(topLevel)
    /\ generateService(topLevel[idx], cfg).err = FALSE
    /\ artifacts' = Append(artifacts,
                           Artifact(topLevelPath(topLevel[idx], cfg),
                                    generateService(topLevel[idx], cfg).code))
    /\ idx' = idx + 1
    /\ UNCHANGED <<params, targets, renderFails, pc, cfg, failed, services, topLevel,
                   nested, categories, errLog>>
    /\ UNCHANGED <<call, ret>>

\* main.go:73-77, one iteration: generateService returned an error.
SkipTopLevel ==
    /\ pc = "toplevel"
    /\ idx <= Len(topLevel)
    /\ generateService(topLevel[idx], cfg).err = TRUE
    /\ errLog' = Append(errLog, <<"service", topLevel[idx].Name>>)
    /\ idx' = idx + 1
    /\ UNCHANGED <<params, targets, renderFails, pc, cfg, failed, services, topLevel,
                   nested, categories, artifacts>>
    /\ UNCHANGED <<call, ret>>

\* main.go:86-92
SortCategories ==
    /\ pc = "toplevel"
    /\ idx > Len(topLevel)
    /\ categories' = sortedCategories(nested)
    /\ idx' = 1
    /\ pc' = "nested"
    /\ UNCHANGED <<params, targets, renderFails, cfg, failed, services, topLevel,
                   nested, artifacts, errLog>>
    /\ UNCHANGED <<call, ret>>

\* main.go:94-110, one iteration: the bucket is sorted in place, then rendered.
EmitCategory ==
    /\ pc = "nested"
    /\ idx <= Len(categories)
    /\ LET category == categories[idx]
           categoryServices == sortCategory(nested[category])
           r == generateNestedServices(category, categoryServices, cfg)
       IN  /\ r.err = FALSE
           /\ nested' = [nested EXCEPT ![category] = categoryServices]
           /\ artifacts' = Append(artifacts, Artifact(categoryPath(category, cfg), r.code))
    /\ idx' = idx + 1
    /\ UNCHANGED <<params, targets, renderFails, pc, cfg, failed, services, topLevel,
                   categories, errLog>>
    /\ UNCHANGED <<call, ret>>

\* main.go:94-105, one iteration: generateNestedServices returned an error.
SkipCategory ==
    /\ pc = "nested"
    /\ idx <= Len(categories)
    /\ LET category == categories[idx]
           categoryServices == sortCategory(nested[category])
           r == generateNestedServices(category, categoryServices, cfg)
       IN  /\ r.err = TRUE
           /\ nested' = [nested EXCEPT ![category] = categoryServices]
           /\ errLog' = Append(errLog, <<"nested", category>>)
    /\ idx' = idx + 1
    /\ UNCHANGED <<params, targets, renderFails, pc, cfg, failed, services, topLevel,
                   categories, artifacts>>
    /\ UNCHANGED <<call, ret>>

\* main.go:112-122: the root client, then return.
EmitRootClient ==
    /\ pc = "nested"
    /\ idx > Len(categories)
    /\ generateRootClient(cfg.ClientName, topLevel, nested, cfg).err = FALSE
    /\ nested' = sortBuckets(nested)
    /\ artifacts' = Append(artifacts,
                           Artifact(rootClientPath(cfg),
                                    generateRootClient(cfg.ClientName, topLevel, nested, cfg).code))
    /\ pc' = "done"
    /\ UNCHANGED <<params, targets, renderFails, cfg, failed, services, topLevel,
                   categories, idx, errLog>>
    /\ UNCHANGED <<call, ret>>

\* main.go:113-115: generateRootClient returned an error.
SkipRootClient ==
    /\ pc = "nested"
    /\ idx > Len(categories)
    /\ generateRootClient(cfg.ClientName, topLevel, nested, cfg).err = TRUE
    /\ nested' = sortBuckets(nested)
    /\ errLog' = Append(errLog, <<"rootclient", cfg.ClientName>>)
    /\ pc' = "done"
    /\ UNCHANGED <<params, targets, renderFails, cfg, failed, services, topLevel,
                   categories, idx, artifacts>>
    /\ UNCHANGED <<call, ret>>

Next ==
    \/ ConfigError
    \/ ConfigPanic
    \/ ConfigOk
    \/ Collect
    \/ EmitStatic
    \/ Group
    \/ EmitTopLevel
    \/ SkipTopLevel
    \/ SortCategories
    \/ EmitCategory
    \/ SkipCategory
    \/ EmitRootClient
    \/ SkipRootClient

Spec == Init /\ [][Next]_vars

\* -------------------------------------------------- a whole run of Execute

\* main.go:72-84, all iterations: the artifacts and the error log lines.
RECURSIVE renderTopLevel(_, _)
renderTopLevel(top, c) ==
    IF top = <<>> THEN [artifacts |-> <<>>, errLog |-> <<>>]
    ELSE LET r == generateService(top[1], c)
             rest == renderTopLevel(Tail(top), c)
         IN  IF r.err
             THEN [artifacts |-> rest.artifacts,
                   errLog |-> <<<<"service", top[1].Name>>>> \o rest.errLog]
             ELSE [artifacts |-> <<Artifact(topLevelPath(top[1], c), r.code)>> \o rest.artifacts,
                   errLog |-> rest.errLog]

\* main.go:94-110, all iterations.
RECURSIVE renderCategories(_, _, _)
renderCategories(cats, buckets, c) ==
    IF cats = <<>> THEN [artifacts |-> <<>>, errLog |-> <<>>]
    ELSE LET r == generateNestedServices(cats[1], sortCategory(buckets[cats[1]]), c)
             rest == renderCategories(Tail(cats), buckets, c)
         IN  IF r.err
             THEN [artifacts |-> rest.artifacts,
                   errLog |-> <<<<"nested", cats[1]>>>> \o rest.errLog]
             ELSE [artifacts |-> <<Artifact(categoryPath(cats[1], c), r.code)>> \o rest.artifacts,
                   errLog |-> rest.errLog]

\* main.go:112-120
renderRoot(top, buckets, c) ==
    LET r == generateRootClient(c.ClientName, top, buckets, c)
    IN  IF r.err
        THEN [artifacts |-> <<>>, errLog |-> <<<<"rootclient", c.ClientName>>>>]
        ELSE [artifacts |-> <<Artifact(rootClientPath(c), r.code)>>, errLog |-> <<>>]

\* What one invocation of Execute leaves behind, for the plugin parameters p
\* and the files in the order the range over the map yields them: whether it
\* crashed, whether Fail was called, the services it logged as found, the
\* artifacts and the error log.
Outcome(crashed, fail, found, arts, log) ==
    [crashed |-> crashed, failed |-> fail, found |-> found, artifacts |-> arts, errLog |-> log]

Execute(p, files) ==
    LET parsed == parseClientConfig(p)
        c == parsed.cfg
        found == extractServices(sortFiles(files), c.RootPackage)
        g == groupServices(found, c.RootPackage)
        top == sortTopLevel(g.topLevel)
        tops == renderTopLevel(top, c)
        cats == renderCategories(sortedCategories(g.nested), g.nested, c)
        root == renderRoot(top, sortBuckets(g.nested), c)
    IN  IF parsed.kind = "err" THEN Outcome(FALSE, TRUE, <<>>, <<>>, <<>>)
        ELSE IF parsed.kind = "panic" THEN Outcome(TRUE, FALSE, <<>>, <<>>, <<>>)
        ELSE Outcome(FALSE, FALSE, found,
                     <<staticArtifact(c)>> \o tops.artifacts \o cats.artifacts \o root.artifacts,
                     tops.errLog \o cats.errLog \o root.errLog)

\* What the run of the state machine has left behind.
Observed == Outcome(pc = "crashed", failed, services, artifacts, errLog)

Finished == pc \in {"done", "crashed"}

\* The run passed the configuration and has collected the services.
Collected == pc \in {"collected", "static", "toplevel", "nested"} \/ (pc = "done" /\ ~failed)

\* The run has grouped the services.
Grouped == pc \in {"toplevel", "nested"} \/ (pc = "done" /\ ~failed)

Range(q) == {q[i] : i \in 1..Len(q)}

Orders(q) == {r \in [1..Len(q) -> Range(q)] : Range(r) = Range(q)}

\* ---------------------------------------------------------------- transport

\* http_client_base.go: the static base client that every generated call site
\* uses.  A response body is <<"obj">> (a JSON object), <<"arr">> (a JSON
\* array) or <<"bad">> (not JSON); a proto message is <<>> for nil or a
\* one-element sequence holding its content.

MethodGET == "GET"

MethodPOST == "POST"

StatusCodes == {199, 200, 204, 299, 300, 404, 500}

Bodies == {<<"obj">>, <<"arr">>, <<"bad">>}

\* What the network and the libraries do during one call of do.
DoEnv ==
    [marshalErr : BOOLEAN, createErr : BOOLEAN, sendErr : BOOLEAN,
     readErr : BOOLEAN, status : StatusCodes, body : Bodies]

\* A request that carries the Authorization header whatever the token is.
httpRequestAlwaysAuth(c, method, path, req) ==
    [Method |-> method, URL |-> c.BaseURL \o path, Body |-> req,
     Accept |-> "application/json",
     ContentType |-> IF req # <<>> THEN "application/json" ELSE "",
     Authorization |-> <<"Bearer ">> \o c.Token]

\* http_client_base.go:153-165: the request do sends.
httpRequest(c, method, path, req) ==
    [Method |-> method, URL |-> c.BaseURL \o path, Body |-> req,
     Accept |-> "application/json",
     ContentType |-> IF req # <<>> THEN "application/json" ELSE "",
     Authorization |-> IF c.Token # <<>> THEN <<"Bearer ">> \o c.Token ELSE <<>>]

\* http_client_base.go:192-201: {"wrapField": <body>}; json.Marshal rejects a
\* RawMessage that is not JSON.
wrapResponse(respBytes, wrapField) ==
    IF respBytes = <<"bad">> THEN [err |-> TRUE, bytes |-> <<>>]
    ELSE [err |-> FALSE, bytes |-> <<"wrap", wrapField>> \o respBytes]

\* protojson Unmarshal: the message is reset, then filled from a JSON object;
\* anything else is an error and leaves the message reset.
unmarshal(bytes, resp) ==
    IF bytes = <<"obj">> \/ (bytes # <<>> /\ bytes[1] = "wrap")
    THEN [err |-> FALSE, resp |-> <<[decoded |-> bytes]>>]
    ELSE [err |-> TRUE, resp |-> <<[decoded |-> <<>>]>>]

\* The result of do: the error ("" for nil) with the status code it carries
\* (0 for none), the response target after the call, the request that went
\* out (<<>> for none).
DoResult(err, code, resp, sent) == [err |-> err, code |-> code, resp |-> resp, sent |-> sent]

\* A do that decodes the body before it looks at the status.
doDecodesFirst(c, method, path, req, resp, wrapField, env) ==
    LET sent == <<httpRequest(c, method, path, req)>>
        w == IF wrapField # <<>> THEN wrapResponse(env.body, wrapField)
             ELSE [err |-> FALSE, bytes |-> env.body]
        u == unmarshal(w.bytes, resp)
        decoded == IF resp = <<>> \/ w.err THEN resp ELSE u.resp
    IN  IF method # MethodGET /\ method # MethodPOST
        THEN DoResult("unsupported HTTP method", 0, resp, <<>>)
        ELSE IF req # <<>> /\ env.marshalErr THEN DoResult("marshal request", 0, resp, <<>>)
        ELSE IF env.createErr THEN DoResult("create request", 0, resp, <<>>)
        ELSE IF env.sendErr THEN DoResult("send request", 0, resp, sent)
        ELSE IF env.readErr THEN DoResult("read response", 0, resp, sent)
        ELSE IF env.status < 200 \/ env.status >= 300
        THEN DoResult("HTTP", env.status, decoded, sent)
        ELSE IF resp = <<>> THEN DoResult("", 0, resp, sent)
        ELSE IF w.err THEN DoResult("wrap response", 0, resp, sent)
        ELSE IF u.err THEN DoResult("unmarshal response", 0, u.resp, sent)
        ELSE DoResult("", 0, u.resp, sent)

\* http_client_base.go:131-212
do(c, method, path, req, resp, wrapField, env) ==
    LET sent == <<httpRequest(c, method, path, req)>>
        w == IF wrapField # <<>> THEN wrapResponse(env.body, wrapField)
             ELSE [err |-> FALSE, bytes |-> env.body]
        u == unmarshal(w.bytes, resp)
    IN  IF method # MethodGET /\ method # MethodPOST
        THEN DoResult("unsupported HTTP method", 0, resp, <<>>)
        ELSE IF req # <<>> /\ env.marshalErr THEN DoResult("marshal request", 0, resp, <<>>)
        ELSE IF env.createErr THEN DoResult("create request", 0, resp, <<>>)
        ELSE IF env.sendErr THEN DoResult("send request", 0, resp, sent)
        ELSE IF env.readErr THEN DoResult("read response", 0, resp, sent)
        ELSE IF env.status < 200 \/ env.status >= 300
        THEN DoResult("HTTP", env.status, resp, sent)
        ELSE IF resp = <<>> THEN DoResult("", 0, resp, sent)
        ELSE IF w.err THEN DoResult("wrap response", 0, resp, sent)
        ELSE IF u.err THEN DoResult("unmarshal response", 0, u.resp, sent)
        ELSE DoResult("", 0, u.resp, sent)

\* http_client_base.go:73-75
Post(c, path, req, resp, env) == do(c, "POST", path, req, resp, <<>>, env)

\* http_client_base.go:101-103
Get(c, path, resp, env) == do(c, "GET", path, <<>>, resp, <<>>, env)

\* ------------------------------------------- the functions, one call each

\* Base names: a stem followed by at most MaxSuffixes of "Service", "Client".
Stems == {<<>>, nFoo, <<"a","c","c","o","u","n","t","s">>, <<"I","n","v","e","s","t","m","e","n","t","s">>}

RECURSIVE Concat(_)
Concat(parts) == IF parts = <<>> THEN <<>> ELSE parts[1] \o Concat(Tail(parts))

SuffixRuns == UNION {[1..n -> {sService, sClient}] : n \in 0..MaxSuffixes}

NameCatalogue == {stem \o Concat(run) : stem \in Stems, run \in SuffixRuns}

\* A path template as its author wrote it: literal pieces and placeholders.
\* A placeholder carries the request field the plan must read for it.
Lit(text) == [ph |-> FALSE, text |-> text, ident |-> <<>>]

Ph(name, ident) == [ph |-> TRUE, text |-> name, ident |-> ident]

SegCatalogue ==
    { Lit(<<"/","a">>), Lit(<<"/">>),
      Ph(<<"k">>, <<"K">>), Ph(<<"l","_","i">>, <<"L","I">>), Ph(<<"i","d">>, <<"I","d">>) }

TemplateCatalogue == UNION {[1..n -> SegCatalogue] : n \in 0..MaxSegs}

RECURSIVE renderTemplate(_)
renderTemplate(segs) ==
    IF segs = <<>> THEN <<>>
    ELSE (IF segs[1].ph THEN <<"{">> \o segs[1].text \o <<"}">> ELSE segs[1].text)
         \o renderTemplate(Tail(segs))

\* The placeholders of a template, left to right.
RECURSIVE placeholders(_)
placeholders(segs) ==
    IF segs = <<>> THEN <<>>
    ELSE (IF segs[1].ph THEN <<segs[1]>> ELSE <<>>) \o placeholders(Tail(segs))

Patterns == {"nooptions", "noextension", "get", "post", "put", "delete", "patch", "custom", "unset"}

HttpPaths ==
    { <<>>, <<"/","a">>, <<"a","/">>, <<"/","/","a">>, <<"/","a","/","{","k","}">> }

MethodCatalogue ==
    {Meth(<<"M">>, <<"R","e","q">>, <<"R","e","s">>, Ann(p, path)) : p \in Patterns, path \in HttpPaths}

Clients == [BaseURL : {<<"u">>}, Token : {<<>>, <<"t">>}]

DoCalls ==
    [c : Clients, method : {"GET", "POST", "PUT"}, path : {<<"/","a">>},
     req : {<<>>, <<[decoded |-> <<"q">>]>>}, resp : {<<>>, <<[decoded |-> <<"r">>]>>},
     wrapField : {<<>>, <<"f">>}, env : DoEnv]

\* The files of the catalogue as a schema may present them: the services of a
\* file and the methods of a service in any order.
SvcVariants(svc) == {Svc(svc.Name, m) : m \in Orders(svc.Methods)}

ServiceOrders(ss) ==
    {q \in [1..Len(ss) -> UNION {SvcVariants(ss[i]) : i \in 1..Len(ss)}] :
        {q[i].Name : i \in 1..Len(q)} = {ss[i].Name : i \in 1..Len(ss)}}

FileVariants(f) == {File(f.Name, f.Package, ss) : ss \in ServiceOrders(f.Services)}

Presentations ==
    {q \in InjectiveSeqs(UNION {FileVariants(f) : f \in FileCatalogue}, MaxFiles) :
        \A i, j \in 1..Len(q) : i # j => q[i].Name # q[j].Name}

\* Snake-case names: at most MaxSegs words, some of them empty, joined by "_".
Words == {<<>>, <<"i","d">>, <<"l","i","n","k">>, <<"i","D">>, <<"X">>}

WordRuns == UNION {[1..n -> Words] : n \in 1..MaxSegs}

Called(fn, arg) == [fn |-> fn, arg |-> arg]

\* No run of Execute: the pipeline's variables stay as they are constructed.
idle ==
    /\ params = Param(<<>>, <<>>)
    /\ targets = <<>>
    /\ renderFails = {}
    /\ pc = "unit"
    /\ cfg = NoConfig
    /\ failed = FALSE
    /\ services = <<>>
    /\ topLevel = <<>>
    /\ nested = NoBuckets
    /\ categories = <<>>
    /\ idx = 0
    /\ artifacts = <<>>
    /\ errLog = <<>>

pipeline == <<params, targets, renderFails, pc, cfg, failed, services, topLevel,
              nested, categories, idx, artifacts, errLog>>

InitUnit ==
    /\ idle
    /\ ret = NoRet
    /\ \/ \E n \in NameCatalogue : call = Called("naming", n)
       \/ \E t \in TemplateCatalogue : call = Called("extractPathParams", t)
       \/ \E t \in TemplateCatalogue : \E q \in Orders(placeholders(t)) :
             call = Called("buildPathConstruction", [segs |-> t, params |-> q])
       \/ \E m \in MethodCatalogue : call = Called("extractHTTPInfo", m)
       \/ \E d \in DoCalls : call = Called("do", d)
       \/ \E w \in WordRuns : call = Called("snakeToPascal", w)
       \/ \E q \in Presentations :
             call = Called("extractServices", [files |-> q, rootPackage |-> pRoot])

\* part_002:109-139: the three names of one base name.
CallNaming ==
    /\ call.fn = "naming" /\ ret.fn = "none"
    /\ ret' = [fn |-> "naming",
               InterfaceName |-> generateInterfaceName(call.arg),
               ImplName |-> generateImplName(call.arg),
               PrivateField |-> generatePrivateFieldName(call.arg)]
    /\ UNCHANGED <<call, pipeline>>

CallExtractPathParams ==
    /\ call.fn = "extractPathParams" /\ ret.fn = "none"
    /\ ret' = [fn |-> "extractPathParams",
               params |-> extractPathParams(renderTemplate(call.arg))]
    /\ UNCHANGED <<call, pipeline>>

CallBuildPathConstruction ==
    /\ call.fn = "buildPathConstruction" /\ ret.fn = "none"
    /\ ret' = [fn |-> "buildPathConstruction",
               plan |-> buildPathConstruction(
                           renderTemplate(call.arg.segs),
                           [i \in 1..Len(call.arg.params) |-> call.arg.params[i].text])]
    /\ UNCHANGED <<call, pipeline>>

CallExtractHTTPInfo ==
    /\ call.fn = "extractHTTPInfo" /\ ret.fn = "none"
    /\ ret' = [fn |-> "extractHTTPInfo", result |-> extractHTTPInfo(call.arg)]
    /\ UNCHANGED <<call, pipeline>>

CallDo ==
    /\ call.fn = "do" /\ ret.fn = "none"
    /\ LET a == call.arg
       IN  ret' = [fn |-> "do",
                   result |-> do(a.c, a.method, a.path, a.req, a.resp, a.wrapField, a.env)]
    /\ UNCHANGED <<call, pipeline>>

\* config.go:73-128
CallExtractServices ==
    /\ call.fn = "extractServices" /\ ret.fn = "none"
    /\ ret' = [fn |-> "extractServices",
               services |-> extractServices(call.arg.files, call.arg.rootPackage)]
    /\ UNCHANGED <<call, pipeline>>

\* protoc-gen-go-dynamo/main.go:107-115
CallSnakeToPascal ==
    /\ call.fn = "snakeToPascal" /\ ret.fn = "none"
    /\ ret' = [fn |-> "snakeToPascal", out |-> snakeToPascal(Join(call.arg, <<"_">>))]
    /\ UNCHANGED <<call, pipeline>>

NextUnit ==
    \/ CallNaming
    \/ CallExtractPathParams
    \/ CallBuildPathConstruction
    \/ CallExtractHTTPInfo
    \/ CallDo
    \/ CallExtractServices
    \/ CallSnakeToPascal

SpecUnit == InitUnit /\ [][NextUnit]_vars

\* ------------------------------------------------------------------ claims

\* C1: a run is determined by the set of input files and the configuration:
\* for every order in which the file map can be iterated, Execute leaves the
\* same artifacts (paths and contents, in the same order), and for every order
\* in which the files are presented to extractServices it returns the same
\* service list.
C1_Deterministic ==
    Finished =>
        \A q \in Orders(targets) :
            /\ Execute(params, q) = Observed
            /\ Collected => extractServices(q, cfg.RootPackage) = services

\* C1's case: a finished run over two files that the map yielded in an order
\* other than the sorted one, both with collected services.
C1_Witness ==
    /\ pc = "done"
    /\ ~failed
    /\ Len(targets) = 2
    /\ sortFiles(targets) # targets
    /\ \A i \in 1..2 : \E j \in 1..Len(services) : services[j].GoPackage = targets[i].Name
    /\ Len(artifacts) >= 3

\* The invocation string has no ":" or a blank side.
Malformed(client) ==
    LET parts == SplitN2(client, ":")
    IN  \/ Len(parts) # 2
        \/ TrimSpace(parts[1]) = <<>>
        \/ TrimSpace(parts[2]) = <<>>

InSeq(e, q) == \E i \in 1..Len(q) : q[i] = e

\* pkg is root or a dot-delimited descendant of it.
IsSelfOrDescendant(pkg, root) ==
    LET a == Split(pkg, ".")
        r == Split(root, ".")
    IN  Len(a) >= Len(r) /\ SubSeq(a, 1, Len(r)) = r

\* C2: in a run with a well-formed invocation string, the services of a file
\* are collected if and only if the file's
\* namespace is the root namespace or a dot-delimited descendant of it; a
\* namespace that only has the root as a string prefix contributes nothing.
C2_OnlyDescendantsCollected ==
    (Collected /\ ~Malformed(params.client)) =>
        \A i \in 1..Len(targets) : \A k \in 1..Len(targets[i].Services) :
            (\E j \in 1..Len(services) :
                /\ services[j].Name = targets[i].Services[k].Name
                /\ services[j].Package = targets[i].Package)
            <=> IsSelfOrDescendant(targets[i].Package, cfg.RootPackage)

\* The method bodies a generated file holds.
funcsOf(code) ==
    IF code.template = "service" THEN Range(code.Body.Funcs)
    ELSE IF code.template = "nested"
    THEN UNION {Range(code.Services[i].Funcs) : i \in 1..Len(code.Services)}
    ELSE {}

\* C3: in a run with a well-formed invocation string, a method bound to PUT,
\* DELETE or PATCH never gets a call site: no
\* emitted file holds a method body for such a binding (rendering it fails
\* instead), so none is rendered as a GET or POST transport call.
C3_UnsupportedVerbNotRendered ==
    ~Malformed(params.client) =>
        \A i \in 1..Len(artifacts) :
            \A f \in funcsOf(artifacts[i].code) : f.Verb \in {"GET", "POST"}

\* The input with the option of method j of service k of file i removed.
withoutAnnotation(files, i, k, j) ==
    [files EXCEPT ![i].Services[k].Methods[j].Ann = NoAnn]

\* C4: in a run with a well-formed invocation string, a method whose HTTP
\* annotation has no recognised verb pattern is reported: the outcome of the run (failure flag, logged services, artifacts,
\* error log) differs from the outcome of the same run with that method
\* carrying no annotation at all.
C4_BindingErrorReported ==
    (pc = "done" /\ ~failed /\ ~Malformed(params.client)) =>
        \A i \in 1..Len(targets) : \A k \in 1..Len(targets[i].Services) :
            \A j \in 1..Len(targets[i].Services[k].Methods) :
                (/\ underRoot(targets[i].Package, cfg.RootPackage)
                 /\ extractHTTPInfo(targets[i].Services[k].Methods[j]).err
                        = "unsupported HTTP method pattern")
                => Execute(params, withoutAnnotation(targets, i, k, j)) # Observed

\* C5: a run with a well-formed invocation string in which the rendering of
\* some output file failed ends in the failed state.
C5_RenderFailureFailsRun ==
    (pc = "done" /\ errLog # <<>> /\ ~Malformed(params.client)) => failed

\* C6: parseClientConfig returns an error, and neither crashes nor returns a
\* configuration, for every malformed invocation string.
C6_MalformedRejected ==
    Malformed(params.client) => parseClientConfig(params).kind = "err"

\* C7: when parseClientConfig returns an error, Execute marks the invocation
\* failed and returns: no service is collected or grouped and no file is
\* emitted, not even the static one.
C7_ConfigErrorAborts ==
    (pc # "start" /\ parseClientConfig(params).kind = "err") =>
        /\ pc = "done"
        /\ failed
        /\ services = <<>>
        /\ topLevel = <<>>
        /\ DOMAIN nested = {}
        /\ artifacts = <<>>

\* C7's case: Execute has returned on a malformed string although a file of
\* the catalogue's root package was among the input.
C7_Witness ==
    /\ pc = "done"
    /\ failed
    /\ parseClientConfig(params).kind = "err"
    /\ \E i \in 1..Len(targets) : targets[i].Package = pRoot

\* C8: in a successful run the artifacts are, in order: the static file, one
\* file per top-level service in ascending name order, one file per category
\* in ascending category order, and the root-client file, once.
C8_EmissionOrder ==
    (pc = "done" /\ ~failed /\ errLog = <<>>) =>
        LET n == Len(artifacts)
            tops == {j \in 1..Len(services) : services[j].Package = cfg.RootPackage}
            t == Cardinality(tops)
        IN  /\ n = 1 + t + Cardinality(DOMAIN nested) + 1
            /\ artifacts[1].code = [template |-> "httpClientBaseCode"]
            /\ \A i \in 2..(t + 1) : artifacts[i].code.template = "service"
            /\ {artifacts[i].code.Body.ServiceName : i \in 2..(t + 1)}
                   = {services[j].Name : j \in tops}
            /\ \A i, j \in 2..(t + 1) :
                   i < j => StrLess(artifacts[i].code.Body.ServiceName,
                                    artifacts[j].code.Body.ServiceName)
            /\ \A i \in (t + 2)..(n - 1) : artifacts[i].code.template = "nested"
            /\ {artifacts[i].code.CategoryLower : i \in (t + 2)..(n - 1)} = DOMAIN nested
            /\ \A i, j \in (t + 2)..(n - 1) :
                   i < j => StrLess(artifacts[i].code.CategoryLower,
                                    artifacts[j].code.CategoryLower)
            /\ artifacts[n].code.template = "rootclient"

\* C8's case: a successful run with two top-level services, or with two
\* categories.
C8_Witness ==
    /\ pc = "done"
    /\ ~failed
    /\ errLog = <<>>
    /\ Len(topLevel) = 2 \/ Cardinality(DOMAIN nested) = 2
    /\ Len(artifacts) >= 4

\* C9: a service is in topLevel exactly when its namespace is the root
\* namespace; any other service is in the bucket of the segment of its
\* namespace at index len(split(root)), and in no other; a service without
\* such a segment is in no bucket and not in topLevel.
C9_Grouping ==
    Grouped =>
        \A j \in 1..Len(services) :
            LET s == services[j]
                segs == Split(s.Package, ".")
                n == Len(Split(cfg.RootPackage, "."))
                buckets == {c \in DOMAIN nested : InSeq(s, nested[c])}
            IN  /\ InSeq(s, topLevel) <=> s.Package = cfg.RootPackage
                /\ s.Package = cfg.RootPackage => buckets = {}
                /\ (s.Package # cfg.RootPackage /\ Len(segs) > n) => buckets = {segs[n + 1]}
                /\ (s.Package # cfg.RootPackage /\ Len(segs) <= n) => buckets = {}

\* C9's case: the services are grouped, one of them lies two segments below
\* the root and one has no segment after the root's.
C9_Witness ==
    /\ Grouped
    /\ \E j \in 1..Len(services) :
           Len(Split(services[j].Package, ".")) = Len(Split(cfg.RootPackage, ".")) + 2
    /\ \E j \in 1..Len(services) :
           /\ services[j].Package # cfg.RootPackage
           /\ Len(Split(services[j].Package, ".")) = Len(Split(cfg.RootPackage, "."))

\* C10: in a run with a well-formed invocation string, the accessors the
\* root-client file declares have pairwise distinct
\* method names and pairwise distinct private field names (a run that would
\* declare two alike emits no root-client file).
C10_AccessorsDistinct ==
    \A i \in 1..Len(artifacts) :
        (artifacts[i].code.template = "rootclient" /\ ~Malformed(params.client)) =>
            LET acc == artifacts[i].code.Accessors
            IN  \A a, b \in 1..Len(acc) :
                    a # b => acc[a].Name # acc[b].Name /\ acc[a].Field # acc[b].Field

\* The base name without a trailing "Service" or, when it has none, without a
\* trailing "Client", its first character in lower case.
AtMostOneSuffixStripped(base) ==
    LET rest == IF HasSuffix(base, sService) THEN SubSeq(base, 1, Len(base) - Len(sService))
                ELSE IF HasSuffix(base, sClient) THEN SubSeq(base, 1, Len(base) - Len(sClient))
                ELSE base
    IN  IF rest = <<>> THEN <<>> ELSE <<ToLowerChar(rest[1])>> \o Tail(rest)

\* C11: generatePrivateFieldName removes at most one suffix from the base
\* name, a trailing "Service" if present, otherwise a trailing "Client", and
\* lower-cases the first character of the rest; "FooClientService" gives
\* "fooClient".
C11_AtMostOneSuffix ==
    ret.fn = "naming" => ret.PrivateField = AtMostOneSuffixStripped(call.arg)

\* C12: for every base name, the empty one included, the interface name is
\* the base name and the implementation name is the base name followed by
\* "Impl", so the two names of one entity differ.
C12_InterfaceAndImplNames ==
    ret.fn = "naming" =>
        /\ ret.InterfaceName = call.arg
        /\ ret.ImplName = call.arg \o <<"I","m","p","l">>
        /\ ret.InterfaceName # ret.ImplName

\* C12 witness: the names of the empty base name have been derived.
C12_Witness ==
    /\ ret.fn = "naming"
    /\ call.arg = <<>>
    /\ ret.ImplName = <<"I","m","p","l">>

\* The names of the placeholders of a template, left to right.
namesOf(segs) == [i \in 1..Len(placeholders(segs)) |-> placeholders(segs)[i].text]

\* C13: extractPathParams returns exactly the names inside the {name}
\* placeholders of the path template, left to right, one entry per
\* occurrence: a name occurring twice is returned twice, a template with no
\* placeholder gives the empty list.
C13_PlaceholdersInOrder ==
    ret.fn = "extractPathParams" =>
        /\ ret.params = namesOf(call.arg)
        /\ Len(ret.params) = Cardinality({i \in 1..Len(call.arg) : call.arg[i].ph})

\* C13 witness: a template in which one name occurs twice, around another
\* name, has been scanned.
C13_Witness ==
    /\ ret.fn = "extractPathParams"
    /\ Len(ret.params) = 3
    /\ ret.params[1] = ret.params[3]
    /\ ret.params[1] # ret.params[2]

\* The template with a substitution slot in the place of every placeholder.
RECURSIVE slotted(_)
slotted(segs) ==
    IF segs = <<>> THEN <<>>
    ELSE (IF segs[1].ph THEN <<"%","s">> ELSE segs[1].text) \o slotted(Tail(segs))

\* The number of substitution slots of a format string.
RECURSIVE CountSlots(_)
CountSlots(format) ==
    IF Len(format) < 2 THEN 0
    ELSE IF format[1] = "%" /\ format[2] = "s" THEN 1 + CountSlots(SubSeq(format, 3, Len(format)))
    ELSE CountSlots(Tail(format))

\* The plan of the call is the plan the template asks for: a slot for every
\* placeholder and, in the i-th slot, the request field of the i-th placeholder.
PlanFollowsTemplate ==
    LET segs == call.arg.segs
        plan == ret.plan
    IN  /\ plan.Template = slotted(segs)
        /\ CountSlots(plan.Template) = Len(plan.Args)
        /\ \A i \in 1..Len(plan.Template) : plan.Template[i] \notin {"{", "}"}
        /\ Len(plan.Args) = Len(placeholders(segs))
        /\ \A i \in 1..Len(plan.Args) :
              plan.Args[i] = <<"r","e","q",".">> \o placeholders(segs)[i].ident

\* C14 as stated: buildPathConstruction replaces every placeholder by its own
\* slot and fills the i-th slot with the identifier of the placeholder that
\* stood at that position, also when a name occurs twice and when params is
\* given in an order different from the template order.
C14_SlotsFollowTemplateAnyOrder ==
    ret.fn = "buildPathConstruction" => PlanFollowsTemplate

\* C14 amended: the same, when params lists the placeholders in template
\* order (what extractPathParams returns), also when a name occurs twice.
C14_SlotsFollowTemplate ==
    (ret.fn = "buildPathConstruction" /\ call.arg.params = placeholders(call.arg.segs))
        => PlanFollowsTemplate

\* C14 witness: a plan was built for a template in which one name occurs
\* twice, around another name, with params in template order.
C14_Witness ==
    /\ ret.fn = "buildPathConstruction"
    /\ call.arg.params = placeholders(call.arg.segs)
    /\ Len(ret.plan.Args) = 3
    /\ ret.plan.Args[1] = ret.plan.Args[3]
    /\ ret.plan.Args[1] # ret.plan.Args[2]

\* C19: extractHTTPInfo has three outcomes: no HTTP annotation gives 'absent'
\* and no error; one of GET, POST, PUT, DELETE, PATCH gives a binding with
\* that verb and the path unchanged; an annotation with none of the five
\* fails with an error.
C19_ThreeOutcomes ==
    ret.fn = "extractHTTPInfo" =>
        LET a == call.arg.Ann
            r == ret.result
        IN  /\ a.pattern \in {"nooptions", "noextension"} => (r.HTTP = <<>> /\ r.err = "")
            /\ a.pattern \in {"custom", "unset"} => (r.HTTP = <<>> /\ r.err # "")
            /\ a.pattern \in {"get", "post", "put", "delete", "patch"} =>
                  /\ r.err = ""
                  /\ Len(r.HTTP) = 1
                  /\ r.HTTP[1].Path = a.path
                  /\ r.HTTP[1].Method =
                        (CASE a.pattern = "get" -> "GET" [] a.pattern = "post" -> "POST"
                           [] a.pattern = "put" -> "PUT" [] a.pattern = "delete" -> "DELETE"
                           [] a.pattern = "patch" -> "PATCH")

\* The call of do got a response: the request was built and sent.
GotResponse ==
    LET a == call.arg
    IN  /\ ret.fn = "do"
        /\ a.method \in {"GET", "POST"}
        /\ ~(a.req # <<>> /\ a.env.marshalErr)
        /\ ~a.env.createErr
        /\ ~a.env.sendErr

Is2xx(status) == status \in 200..299

\* C20 as stated: for every response whose status code is outside 200..299
\* do returns an error that carries the status code and leaves the response
\* target as the caller passed it; the target is decoded only after 2xx.
C20_ErrorCarriesStatus ==
    /\ (GotResponse /\ ~Is2xx(call.arg.env.status)) =>
          /\ ret.result.err = "HTTP"
          /\ ret.result.code = call.arg.env.status
          /\ ret.result.resp = call.arg.resp
    /\ (ret.fn = "do" /\ ret.result.resp # call.arg.resp) =>
          (GotResponse /\ Is2xx(call.arg.env.status))

\* C20 amended: the same for every response whose body could be read; when
\* the body cannot be read do returns the read error, which carries no
\* status code, and leaves the target as passed too.
C20_ErrorCarriesStatusIfBodyRead ==
    /\ (GotResponse /\ ~Is2xx(call.arg.env.status)) =>
          /\ ret.result.err # ""
          /\ ret.result.resp = call.arg.resp
          /\ ~call.arg.env.readErr =>
                (ret.result.err = "HTTP" /\ ret.result.code = call.arg.env.status)
          /\ call.arg.env.readErr =>
                (ret.result.err = "read response" /\ ret.result.code = 0)
    /\ (ret.fn = "do" /\ ret.result.resp # call.arg.resp) =>
          (GotResponse /\ Is2xx(call.arg.env.status))

\* C20 witness: a 404 whose body is a JSON object came back to a call with
\* a response target.
C20_Witness ==
    /\ GotResponse
    /\ call.arg.env.status = 404
    /\ ~call.arg.env.readErr
    /\ call.arg.env.body = <<"obj">>
    /\ call.arg.resp # <<>>
    /\ ret.result.err = "HTTP"

\* s comes before t or is t, byte by byte.
StrLeq(s, t) == s = t \/ StrLess(s, t)

\* C15: after extractServices the methods of every service are in ascending
\* order of name and the services in ascending order of (namespace, name),
\* the namespace compared first, for every order in which files, services
\* and methods were presented.
C15_CollectorOrder ==
    ret.fn = "extractServices" =>
        LET found == ret.services
        IN  /\ \A k \in 1..Len(found) : \A i, j \in 1..Len(found[k].Methods) :
                  i < j => StrLeq(found[k].Methods[i].Name, found[k].Methods[j].Name)
            /\ \A i, j \in 1..Len(found) :
                  i < j => \/ StrLess(found[i].Package, found[j].Package)
                           \/ /\ found[i].Package = found[j].Package
                              /\ StrLeq(found[i].Name, found[j].Name)

\* C15 witness: files presented in descending order of package, with a
\* service whose methods were presented in descending order, have been
\* collected into services of two packages.
C15_Witness ==
    /\ ret.fn = "extractServices"
    /\ Len(call.arg.files) = 2
    /\ StrLess(call.arg.files[2].Package, call.arg.files[1].Package)
    /\ \E k \in 1..Len(call.arg.files[1].Services) :
          LET m == call.arg.files[1].Services[k].Methods
          IN  Len(m) = 2 /\ StrLess(m[2].Name, m[1].Name)
    /\ Len(ret.services) >= 2
    /\ ret.services[1].Package # ret.services[Len(ret.services)].Package

\* The names of the methods of a collected service that have a binding, in
\* the collector's order.
RECURSIVE BoundNames(_)
BoundNames(methods) ==
    IF methods = <<>> THEN <<>>
    ELSE (IF methods[1].HTTP # <<>> THEN <<methods[1].Name>> ELSE <<>>)
         \o BoundNames(Tail(methods))

\* The generated interface and implementation of a service declare its bound
\* methods, each once, in the collector's order.
DeclaresBound(body, svc) ==
    /\ [i \in 1..Len(body.Signatures) |-> body.Signatures[i].Name] = BoundNames(svc.Methods)
    /\ [i \in 1..Len(body.Funcs) |-> body.Funcs[i].Name] = BoundNames(svc.Methods)
    /\ body.InterfaceName = svc.Name
    /\ body.ImplName = svc.Name \o <<"I","m","p","l">>

\* The generated services: every body of a top-level file or category file.
GeneratedBodies ==
    UNION {IF artifacts[i].code.template = "service" THEN {artifacts[i].code.Body}
           ELSE IF artifacts[i].code.template = "nested" THEN Range(artifacts[i].code.Services)
           ELSE {} : i \in 1..Len(artifacts)}

\* C16: in every generated service, of a top-level file or a category file,
\* the interface declares exactly one signature and the implementation
\* exactly one method for each method that has an HTTP binding, in collector
\* order; a method without binding produces nothing, and a service with no
\* bound method still gets an (empty) interface and implementation.
C16_OneSignaturePerBoundMethod ==
    /\ \A body \in GeneratedBodies :
          \E k \in 1..Len(services) :
              services[k].Name = body.ServiceName /\ DeclaresBound(body, services[k])
    /\ (pc = "done" /\ ~failed /\ errLog = <<>>) =>
          \A k \in 1..Len(services) :
              (services[k].Package = cfg.RootPackage
                  \/ \E c \in DOMAIN nested : InSeq(services[k], nested[c]))
              => \E body \in GeneratedBodies : body.ServiceName = services[k].Name

\* C16 witness: a finished run has generated a top-level service without a
\* bound method, a top-level service with two, and a category service with
\* one bound method and one without binding.
C16_Witness ==
    /\ pc = "done" /\ ~failed /\ errLog = <<>>
    /\ \E body \in GeneratedBodies : body.Signatures = <<>> /\ body.Funcs = <<>>
    /\ \E body \in GeneratedBodies : Len(body.Signatures) = 2
    /\ \E i \in 1..Len(artifacts) :
          /\ artifacts[i].code.template = "nested"
          /\ \E body \in Range(artifacts[i].code.Services) :
                /\ Len(body.Signatures) = 1
                /\ \E k \in 1..Len(services) :
                      services[k].Name = body.ServiceName /\ Len(services[k].Methods) = 2

\* The root-client files the run has emitted.
RootClients == {artifacts[i].code : i \in {j \in 1..Len(artifacts) : artifacts[j].code.template = "rootclient"}}

\* The name without a trailing "Service".
WithoutService(name) ==
    IF HasSuffix(name, sService) THEN SubSeq(name, 1, Len(name) - Len(sService)) ELSE name

\* C17: the root-client file declares exactly one accessor for every
\* top-level service, named Get + (name without a trailing "Service") and
\* returning the service's interface, then exactly one for every nested
\* category, named Get + (category, first character in upper case) and
\* returning <Category>Client; each group in ascending order, nothing else.
C17_RootAccessors ==
    \A code \in RootClients :
        LET acc == code.Accessors
            tops == {services[k] : k \in {j \in 1..Len(services) : services[j].Package = cfg.RootPackage}}
            t == Cardinality(tops)
            cats == DOMAIN nested
            Cap(c) == <<ToUpperChar(c[1])>> \o Tail(c)
        IN  /\ Len(acc) = t + Cardinality(cats)
            /\ {<<acc[i].Name, acc[i].Returns>> : i \in 1..t}
                  = {<<<<"G","e","t">> \o WithoutService(svc.Name), svc.Name>> : svc \in tops}
            /\ \A i, j \in 1..t : i < j => StrLess(acc[i].Returns, acc[j].Returns)
            /\ {<<acc[i].Name, acc[i].Returns>> : i \in (t + 1)..Len(acc)}
                  = {<<<<"G","e","t">> \o Cap(c), Cap(c) \o <<"C","l","i","e","n","t">>>> : c \in cats}
            /\ \A i, j \in (t + 1)..Len(acc) : i < j => StrLess(acc[i].Name, acc[j].Name)

\* C17 witness: a root client with two top-level services, one of them named
\* ...Service, and a category has been emitted.
C17_Witness ==
    \E code \in RootClients :
        /\ Len(code.Accessors) = 3
        /\ Cardinality(DOMAIN nested) = 1
        /\ \E i \in 1..2 : HasSuffix(code.Accessors[i].Returns, sService)

\* C18: the generated constructor creates exactly one transport handle and
\* gives that handle to every top-level service implementation and to every
\* service implementation inside every nested-category aggregate.
C18_OneSharedHandle ==
    \A code \in RootClients :
        LET k == code.Constructor
        IN  /\ Len(k.Creates) = 1
            /\ Len(k.TopLevel) = Len(topLevel)
            /\ \A i \in 1..Len(k.TopLevel) :
                  /\ k.TopLevel[i].client = k.Creates[1]
                  /\ k.TopLevel[i].ImplName = topLevel[i].Name \o <<"I","m","p","l">>
            /\ Len(k.Nested) = Cardinality(DOMAIN nested)
            /\ \A j \in 1..Len(k.Nested) :
                  \E c \in DOMAIN nested :
                     /\ Len(k.Nested[j].Services) = Len(nested[c])
                     /\ {k.Nested[j].Services[i].ImplName : i \in 1..Len(nested[c])}
                           = {nested[c][i].Name \o <<"I","m","p","l">> : i \in 1..Len(nested[c])}
                     /\ \A i \in 1..Len(k.Nested[j].Services) :
                           k.Nested[j].Services[i].client = k.Creates[1]

\* C18 witness: a constructor that builds two top-level services and a
\* category with a service has been generated.
C18_Witness ==
    \E code \in RootClients :
        /\ Len(code.Constructor.TopLevel) = 2
        /\ \E j \in 1..Len(code.Constructor.Nested) :
              Len(code.Constructor.Nested[j].Services) >= 1

\* C21: do accepts only the verbs GET and POST: for any other verb it returns
\* an error before a request is built or sent; and a request carries the
\* bearer-token Authorization header exactly when the handle's token is not
\* empty.
C21_VerbsAndBearerToken ==
    ret.fn = "do" =>
        LET a == call.arg
            r == ret.result
        IN  /\ a.method \notin {"GET", "POST"} =>
                  (r.err = "unsupported HTTP method" /\ r.sent = <<>> /\ r.resp = a.resp)
            /\ a.method \in {"GET", "POST"} => r.err # "unsupported HTTP method"
            /\ r.sent # <<>> =>
                  /\ (r.sent[1].Authorization # <<>>) <=> (a.c.Token # <<>>)
                  /\ a.c.Token # <<>> =>
                        r.sent[1].Authorization = <<"Bearer ">> \o a.c.Token

\* C21 witness: a PUT through a handle with a token was refused, although
\* nothing else stood in the way of the request.
C21_Witness ==
    /\ ret.fn = "do"
    /\ call.arg.method = "PUT"
    /\ call.arg.c.Token # <<>>
    /\ ~call.arg.env.marshalErr /\ ~call.arg.env.createErr /\ ~call.arg.env.sendErr
    /\ ret.result.err = "unsupported HTTP method"

\* The segment with its first character in upper case.
Capitalized(w) == IF w = <<>> THEN <<>> ELSE <<ToUpperChar(w[1])>> \o Tail(w)

\* C22: snakeToPascal splits its argument on '_', upper-cases the first
\* character of every non-empty segment, leaves the rest of each segment
\* unchanged and concatenates the segments; "link_id" gives "LinkId"; the
\* result never contains '_'.
C22_SnakeToPascal ==
    ret.fn = "snakeToPascal" =>
        /\ ret.out = Concat([i \in 1..Len(call.arg) |-> Capitalized(call.arg[i])])
        /\ \A i \in 1..Len(ret.out) : ret.out[i] # "_"
        /\ call.arg = << <<"l","i","n","k">>, <<"i","d">> >> =>
              ret.out = <<"L","i","n","k","I","d">>

\* C22 witness: a name with an empty segment and a segment with an upper-case
\* letter inside has been converted.
C22_Witness ==
    /\ ret.fn = "snakeToPascal"
    /\ call.arg = << <<"l","i","n","k">>, <<>>, <<"i","D">> >>
    /\ ret.out = <<"L","i","n","k","I","D">>

\* C23: the rendering of the output files shares no mutable state: the
\* per-category step of Execute, which sorts the bucket before it renders,
\* and generateRootClient, which sorts the same buckets, can run in any order
\* or at once, because no rendering step writes to a value another step
\* reads: the buckets the Grouper produced stay as they are while the files
\* are rendered.
C23_RenderingWritesNoBucket ==
    (Grouped /\ ~Malformed(params.client)) =>
        nested = groupServices(services, cfg.RootPackage).nested

\* Where the Collector put a service.
CollectorIndex(svc) == CHOOSE k \in 1..Len(services) : services[k] = svc

\* The services of q stand in the order the Collector gave them.
InCollectorOrder(q) ==
    \A i, j \in 1..Len(q) : i < j => CollectorIndex(q[i]) < CollectorIndex(q[j])

\* C24: the emitter's re-sorting never changes the order the Collector
\* produced: the top-level list and every category bucket, after the by-name
\* sorts of Execute and generateRootClient, are in the relative order of the
\* Collector's (namespace, name) ordering, also when a bucket holds services
\* of different namespaces.
C24_ResortKeepsCollectorOrder ==
    (Grouped /\ ~Malformed(params.client)) =>
        /\ InCollectorOrder(topLevel)
        /\ \A c \in DOMAIN nested : InCollectorOrder(nested[c])

\* C25: within one run no output file path is emitted twice: the paths of the
\* runtime-support file, the top-level service files, the category files and
\* the root-client file are pairwise distinct.
C25_PathsDistinct ==
    ~Malformed(params.client) =>
        \A i, j \in 1..Len(artifacts) : i # j => artifacts[i].path # artifacts[j].path

\* The places of the buckets: a category and an index into its bucket.
BucketPlaces == UNION {{<<c, i>> : i \in 1..Len(nested[c])} : c \in DOMAIN nested}

\* How often the service stands in topLevel and in the buckets.
Occurrences(svc) ==
    Cardinality({i \in 1..Len(topLevel) : topLevel[i] = svc})
      + Cardinality({pl \in BucketPlaces : nested[pl[1]][pl[2]] = svc})

\* The number of segments of a dotted name.
Segments(pkg) == 1 + Cardinality({i \in 1..Len(pkg) : pkg[i] = "."})

\* The collected services the Grouper has no place for: not of the root
\* namespace and without a segment after the root's.
Dropped ==
    {k \in 1..Len(services) :
        /\ services[k].Package # cfg.RootPackage
        /\ Segments(services[k].Package) <= Segments(cfg.RootPackage)}

\* C26: groupServices partitions its input: every input service appears at
\* most once, in topLevel or in exactly one bucket; no service is duplicated
\* or invented; no bucket is empty; topLevel, the buckets and the dropped
\* services together are as many as the input services.
C26_GroupingPartitions ==
    Grouped =>
        /\ \A k \in 1..Len(services) : Occurrences(services[k]) <= 1
        /\ \A i \in 1..Len(topLevel) : InSeq(topLevel[i], services)
        /\ \A pl \in BucketPlaces : InSeq(nested[pl[1]][pl[2]], services)
        /\ \A c \in DOMAIN nested : nested[c] # <<>>
        /\ Len(topLevel) + Cardinality(BucketPlaces) + Cardinality(Dropped) = Len(services)

\* C26 witness: two services of different namespaces have been put into one
\* bucket.
C26_Witness ==
    /\ Grouped
    /\ \E c \in DOMAIN nested :
          Len(nested[c]) = 2 /\ nested[c][1].Package # nested[c][2].Package

\* The top-level service files and the category files the run has emitted.
ServiceFiles == {artifacts[i].code : i \in {j \in 1..Len(artifacts) : artifacts[j].code.template = "service"}}

CategoryFiles == {artifacts[i].code : i \in {j \in 1..Len(artifacts) : artifacts[j].code.template = "nested"}}

\* C27: the coordinated output files agree on names: every implementation
\* type, interface type and private field the root-client file references
\* for a top-level service, for a category aggregate or for a service inside
\* an aggregate is declared under the same name in a top-level service file
\* or category file emitted in the same run.
C27_NamesAgree ==
    ~Malformed(params.client) =>
        \A code \in RootClients :
            LET t == Len(code.Constructor.TopLevel)
            IN  /\ \A i \in 1..t :
                      \E f \in ServiceFiles :
                          /\ f.Body.InterfaceName = code.Accessors[i].Returns
                          /\ f.Body.ImplName = code.Accessors[i].FieldType
                          /\ f.Body.ImplName = code.Constructor.TopLevel[i].ImplName
                /\ \A j \in 1..Len(code.Constructor.Nested) :
                      \E f \in CategoryFiles :
                          /\ f.InterfaceName = code.Accessors[t + j].Returns
                          /\ f.ImplName = code.Accessors[t + j].FieldType
                          /\ f.ImplName = code.Constructor.Nested[j].ImplName
                          /\ \A i \in 1..Len(code.Constructor.Nested[j].Services) :
                                LET w == code.Constructor.Nested[j].Services[i]
                                IN  /\ \E a \in Range(f.Accessors) :
                                          a.Field = w.Field /\ a.FieldType = w.ImplName
                                    /\ \E body \in Range(f.Services) : body.ImplName = w.ImplName

\* The bindings of the collected method a generated function was emitted for.
bindingsOf(serviceName, methodName) ==
    {m.HTTP[1] : m \in {x \in UNION {Range(svc.Methods) :
                                     svc \in {y \in Range(services) : y.Name = serviceName}} :
                        x.Name = methodName /\ x.HTTP # <<>>}}

\* The service bodies a generated file contains.
bodiesOf(code) ==
    IF code.template = "service" THEN {code.Body}
    ELSE IF code.template = "nested" THEN Range(code.Services)
    ELSE {}

\* A function builds its path by substitution exactly if its binding has a
\* path parameter, and otherwise takes the template as a literal.
SubstitutesIffParams(body, f) ==
    /\ bindingsOf(body.ServiceName, f.Name) # {}
    /\ \A h \in bindingsOf(body.ServiceName, f.Name) :
          /\ f.Path.sprintf <=> (Len(h.PathParams) > 0)
          /\ ~f.Path.sprintf => (f.Path.text = h.Path /\ f.Path.args = <<>>)

\* C28: a generated service or category file imports the formatting package
\* exactly if at least one method emitted into it builds its path by
\* parameter substitution, and an emitted method builds its path by
\* substitution exactly if its binding has at least one path parameter;
\* otherwise its path is the template as a literal string.
C28_FmtIffSubstitution ==
    \A code \in ServiceFiles \cup CategoryFiles :
        /\ code.HasFmt <=> \E body \in bodiesOf(code) : \E f \in Range(body.Funcs) : f.Path.sprintf
        /\ \A body \in bodiesOf(code) : \A f \in Range(body.Funcs) : SubstitutesIffParams(body, f)

\* C28 witness: one emitted file imports the formatting package and holds a
\* function with a substituted path next to one with a literal path, and
\* another emitted file does not import it.
C28_Witness ==
    /\ \E code \in ServiceFiles \cup CategoryFiles :
          /\ code.HasFmt
          /\ \E body \in bodiesOf(code) :
                /\ \E f \in Range(body.Funcs) : f.Path.sprintf
                /\ \E f \in Range(body.Funcs) : ~f.Path.sprintf
    /\ \E code \in ServiceFiles \cup CategoryFiles :
          ~code.HasFmt /\ \E body \in bodiesOf(code) : body.Funcs # <<>>

\* The import path of the schema package of a namespace: the module root
\* followed by the namespace with its dots replaced by slashes.
schemaImportOf(pkg) == cfg.GoModulePath \o <<"/">> \o DotsToSlashes(pkg)

\* C29: for every service placed in a category file, the schema package the
\* file imports is the package of that service's own namespace: the module
\* root followed by the service's namespace with '.' replaced by '/'.
C29_CategoryImportsOwnPackage ==
    ~Malformed(params.client) =>
        \A code \in CategoryFiles :
            \A svc \in Range(nested[code.CategoryLower]) :
                code.ProtoPackage = schemaImportOf(svc.Package)

====
